---------------------------- MODULE Spec2Model ----------------------------
(***************************************************************************)
(* A model of the KZG core of go-kzg-4844: the FFT domain and its Lagrange *)
(* evaluators (internal/kzg/domain.go), the multi-scalar multiplication    *)
(* (internal/multiexp/multiexp.go), the canonical deserialisers            *)
(* (serialisation.go) and the trusted-setup checker and parser.            *)
(*                                                                         *)
(* The scalar field is scaled down: fr.Element is modelled as the prime    *)
(* field F_17, whose multiplicative group has 2-adicity 4 and in which 3   *)
(* has order 2^4, where the BLS12-381 scalar field has 2-adicity 32 and    *)
(* the fixed root of unity has order 2^32.  Go slices and arrays are       *)
(* functions on 0..n-1, as the source indexes them.                        *)
(***************************************************************************)
EXTENDS Integers, Sequences, FiniteSets, TLC

VARIABLES size, domain, call, locals, pc, units, points, wg

vars == <<size, domain, call, locals, pc, units, points, wg>>

----------------------------------------------------------------------------
(* Bounds of the model *)

\* NewDomain is called with every m in 0..MaxSize
MaxSize == 33
\* polynomials handed to the evaluators have 0..MaxPolyLen elements
MaxPolyLen == 4
\* EvaluateLagrangePolynomials is called with 0..MaxPairs pairs
MaxPairs == 2
\* the bytes of a serialised scalar (32 in the source)
SERIALISED_SCALAR_SIZE == 2
\* the bytes of a compressed G1 point (48 in the source)
COMPRESSED_G1_SIZE == 1
\* the scalars of a blob (4096 in the source)
FIELD_ELEMENTS_PER_BLOB == 3
\* deserialisePolys is called with 0..MaxPolys serialised polynomials
MaxPolys == 2
\* deserialiseComms is called with 0..MaxComms serialised commitments
MaxComms == 3
\* MultiExp is called with lists of 0..MaxMultiExp elements
MaxMultiExp == 3
\* SetupG2 has 0..MaxG2 entries
MaxG2 == 2

----------------------------------------------------------------------------
(* fr.Element: the scalar field (gnark-crypto), scaled to F_17 *)

Modulus == 17
rootOfUnity == 3
maxOrderRoot == 4

Fr == 0 .. (Modulus - 1)

len(list) == Cardinality(DOMAIN list)

EmptyList == [i \in {} |-> 0]

frAdd(a, b) == (a + b) % Modulus
frSub(a, b) == (a - b + Modulus) % Modulus
frMul(a, b) == (a * b) % Modulus

\* fr.Element.Exp: square and multiply
RECURSIVE frExp(_, _)
frExp(a, e) ==
    IF e = 0 THEN 1
    ELSE LET h == frExp(a, e \div 2)
         IN  IF e % 2 = 0 THEN frMul(h, h) ELSE frMul(frMul(h, h), a)

\* fr.Element.Inverse: the inverse of 0 is 0
frInverse(a) == IF a = 0 THEN 0 ELSE frExp(a, Modulus - 2)

\* fr.BatchInvert: zero entries stay zero
frBatchInvert(list) == [i \in DOMAIN list |-> frInverse(list[i])]

RECURSIVE Pow2(_)
Pow2(k) == IF k = 0 THEN 1 ELSE 2 * Pow2(k - 1)

\* bits.TrailingZeros64 of a power of two
RECURSIVE TrailingZeros(_)
TrailingZeros(x) == IF x % 2 = 1 THEN 0 ELSE 1 + TrailingZeros(x \div 2)

\* ecc.NextPowerOfTwo: 0 and 1 give 1
RECURSIVE NextPowerOfTwoFrom(_, _)
NextPowerOfTwoFrom(x, m) == IF x >= m THEN x ELSE NextPowerOfTwoFrom(2 * x, m)

NextPowerOfTwo(m) == NextPowerOfTwoFrom(1, m)

\* utils.IsPowerOfTwo
IsPowerOfTwo(n) == n > 0 /\ Pow2(TrailingZeros(n)) = n

----------------------------------------------------------------------------
(* internal/kzg/domain.go *)

Panic == [panic |-> TRUE]

\* The roots loop of NewDomain: Roots[i] = current; current *= Generator
RECURSIVE RootsFrom(_, _, _, _)
RootsFrom(roots, i, current, gen) ==
    IF i >= len(roots) THEN roots
    ELSE RootsFrom([roots EXCEPT ![i] = current], i + 1, frMul(current, gen), gen)

NewDomainNoInverses(m) ==
    LET x    == NextPowerOfTwo(m)
        logx == TrailingZeros(x)
    IN  IF logx > maxOrderRoot THEN Panic
        ELSE LET expo  == Pow2(maxOrderRoot - logx)
                 gen   == frExp(rootOfUnity, expo)
                 roots == RootsFrom([i \in 0 .. (x - 1) |-> 0], 0, 1, gen)
             IN  [panic               |-> FALSE,
                  Cardinality         |-> x,
                  CardinalityInv      |-> frInverse(x % Modulus),
                  Generator           |-> gen,
                  GeneratorInv        |-> frInverse(gen),
                  Roots               |-> roots,
                  PreComputedInverses |-> roots]

NewDomain(m) ==
    LET x    == NextPowerOfTwo(m)
        logx == TrailingZeros(x)
    IN  IF logx > maxOrderRoot THEN Panic
        ELSE LET expo  == Pow2(maxOrderRoot - logx)
                 gen   == frExp(rootOfUnity, expo)
                 roots == RootsFrom([i \in 0 .. (x - 1) |-> 0], 0, 1, gen)
             IN  [panic               |-> FALSE,
                  Cardinality         |-> x,
                  CardinalityInv      |-> frInverse(x % Modulus),
                  Generator           |-> gen,
                  GeneratorInv        |-> frInverse(gen),
                  Roots               |-> roots,
                  PreComputedInverses |-> [i \in 0 .. (x - 1) |-> frInverse(roots[i])]]

\* bits.Reverse64(i) >> (64 - log2 n): the low nbits bits of i, reversed
RECURSIVE RevBits(_, _)
RevBits(i, nbits) ==
    IF nbits = 0 THEN 0
    ELSE (i % 2) * Pow2(nbits - 1) + RevBits(i \div 2, nbits - 1)

\* The loop of bitReverse from index i on
RECURSIVE bitReverseFrom(_, _)
bitReverseFrom(list, i) ==
    LET n    == len(list)
        irev == RevBits(i, TrailingZeros(n))
    IN  IF i >= n THEN list
        ELSE IF irev > i
             THEN bitReverseFrom([list EXCEPT ![i] = list[irev], ![irev] = list[i]], i + 1)
             ELSE bitReverseFrom(list, i + 1)

bitReverse(list) ==
    IF ~IsPowerOfTwo(len(list)) THEN Panic ELSE bitReverseFrom(list, 0)

ReverseRootsOnlyRoots(d) ==
    [d EXCEPT !.Roots = bitReverse(d.Roots)]

ReverseRoots(d) ==
    [d EXCEPT !.Roots = bitReverse(d.Roots),
              !.PreComputedInverses = bitReverse(d.PreComputedInverses)]

\* The scan of findRootIndex from index i on
RECURSIVE findRootIndexFrom(_, _, _)
findRootIndexFrom(d, point, i) ==
    IF i >= d.Cardinality THEN -1
    ELSE IF point = d.Roots[i] THEN i
    ELSE findRootIndexFrom(d, point, i + 1)

findRootIndex(d, point) == findRootIndexFrom(d, point, 0)

isInDomain(d, point) == findRootIndex(d, point) # -1

ErrPolynomialMismatchedSizeDomain == "ErrPolynomialMismatchedSizeDomain"
\* a nil error
Nil == "nil"
\* a nil *fr.Element
NilElement == -1

\* The accumulation loop: result += poly[i] * Roots[i] * invDenom[i + offset]
RECURSIVE sumFrom(_, _, _, _, _, _)
sumFrom(d, poly, invDenom, offset, i, result) ==
    IF i >= d.Cardinality THEN result
    ELSE LET num == frMul(poly[i], d.Roots[i])
             div == frMul(num, invDenom[i + offset])
         IN  sumFrom(d, poly, invDenom, offset, i + 1, frAdd(result, div))

\* result * (x^width - 1) * 1/width
scale(d, evalPoint, result) ==
    LET tmp == frMul(frSub(frExp(evalPoint, d.Cardinality), 1), d.CardinalityInv)
    IN  frMul(tmp, result)

evaluateLagrangePolynomialNoScale(d, poly, evalPoint) ==
    IF d.Cardinality # len(poly)
    THEN [out |-> NilElement, index |-> -1, err |-> ErrPolynomialMismatchedSizeDomain]
    ELSE LET indexInDomain == findRootIndex(d, evalPoint)
         IN  IF indexInDomain # -1
             THEN [out |-> poly[indexInDomain], index |-> indexInDomain, err |-> Nil]
             ELSE LET denom    == [i \in 0 .. (d.Cardinality - 1) |->
                                       frSub(evalPoint, d.Roots[i])]
                      invDenom == frBatchInvert(denom)
                      result   == sumFrom(d, poly, invDenom, 0, 0, 0)
                  IN  [out |-> frMul(frSub(frExp(evalPoint, d.Cardinality), 1), result),
                       index |-> indexInDomain, err |-> Nil]

evaluateLagrangePolynomial(d, poly, evalPoint) ==
    IF d.Cardinality # len(poly)
    THEN [out |-> NilElement, index |-> -1, err |-> ErrPolynomialMismatchedSizeDomain]
    ELSE LET indexInDomain == findRootIndex(d, evalPoint)
         IN  IF indexInDomain # -1
             THEN [out |-> poly[indexInDomain], index |-> indexInDomain, err |-> Nil]
             ELSE LET denom    == [i \in 0 .. (d.Cardinality - 1) |->
                                       frSub(evalPoint, d.Roots[i])]
                      invDenom == frBatchInvert(denom)
                      result   == sumFrom(d, poly, invDenom, 0, 0, 0)
                  IN  [out |-> scale(d, evalPoint, result),
                       index |-> indexInDomain, err |-> Nil]

EvaluateLagrangePolynomial(d, poly, evalPoint) ==
    LET r == evaluateLagrangePolynomial(d, poly, evalPoint)
    IN  [out |-> r.out, err |-> r.err]

\* The denominators loop of EvaluateLagrangePolynomials, flattened: step k
\* handles polyOffset = k \div Cardinality and rootIndex = k % Cardinality,
\* and writes denom[polyOffset + rootIndex]; an index out of range panics
RECURSIVE denomFrom(_, _, _, _)
denomFrom(d, evalPoints, denom, k) ==
    LET polyOffset == k \div d.Cardinality
        rootIndex  == k % d.Cardinality
    IN  IF k >= len(evalPoints) * d.Cardinality THEN [panic |-> FALSE, denom |-> denom]
        ELSE IF polyOffset + rootIndex >= len(denom) THEN Panic
        ELSE denomFrom(d, evalPoints,
                       [denom EXCEPT ![polyOffset + rootIndex] =
                            frSub(evalPoints[polyOffset], d.Roots[rootIndex])],
                       k + 1)

\* The number of evaluation points outside the domain
numBatchInversionsNeeded(indicesInDomain) ==
    Cardinality({i \in DOMAIN indicesInDomain : indicesInDomain[i] = -1})

\* One iteration of the output loop of EvaluateLagrangePolynomials
evaluationAt(d, polys, evalPoints, indicesInDomain, denom, i) ==
    IF indicesInDomain[i] # -1
    THEN polys[i][indicesInDomain[i]]
    ELSE scale(d, evalPoints[i], sumFrom(d, polys[i], denom, i, 0, 0))

EvaluateLagrangePolynomials(d, polys, evalPoints) ==
    IF len(evalPoints) < len(polys) THEN Panic
    ELSE
    LET indicesInDomain == [i \in DOMAIN polys |-> findRootIndex(d, evalPoints[i])]
        needed == numBatchInversionsNeeded(indicesInDomain)
        denom0 == [k \in 0 .. (d.Cardinality * needed - 1) |-> 0]
        denom1 == denomFrom(d, evalPoints, denom0, 0)
    IN  IF denom1.panic THEN Panic
        ELSE IF \E i \in DOMAIN polys :
                    IF indicesInDomain[i] # -1
                    THEN indicesInDomain[i] >= len(polys[i])
                    ELSE len(polys[i]) < d.Cardinality
        THEN Panic
        ELSE LET denom == frBatchInvert(denom1.denom)
             IN  [panic |-> FALSE,
                  evaluations |-> [i \in DOMAIN polys |->
                      evaluationAt(d, polys, evalPoints, indicesInDomain, denom, i)]]

----------------------------------------------------------------------------
(* The domain and its single-point evaluator as a state machine: a Domain  *)
(* is built by NewDomain(size), reversed in place any number of times, and *)
(* read by EvaluateLagrangePolynomial; call holds the last operation, its  *)
(* arguments and what it returned.  The evaluators leave the Domain as it  *)
(* is, so one evaluation per Domain state covers every sequence of them.   *)

Coeffs == {0, 1, Modulus - 1}

PolysOfLen(n) == [0 .. (n - 1) -> Coeffs]

PolyInputs == UNION {PolysOfLen(n) : n \in 0 .. MaxPolyLen}

Idle == [op |-> "idle"]

InitDomain ==
    /\ size \in 0 .. MaxSize
    /\ domain = NewDomain(size)
    /\ call = [op |-> "NewDomain"]
    /\ locals = Idle /\ pc = "idle" /\ units = EmptyList /\ points = EmptyList /\ wg = 0

DoReverseRoots ==
    /\ ~domain.panic
    /\ domain' = ReverseRoots(domain)
    /\ call' = [op |-> "ReverseRoots"]
    /\ UNCHANGED <<size, locals, pc, units, points, wg>>

DoEvaluateLagrangePolynomial ==
    /\ ~domain.panic
    /\ call.op \in {"NewDomain", "ReverseRoots"}
    /\ \E poly \in PolyInputs, evalPoint \in Fr :
          call' = [op |-> "EvaluateLagrangePolynomial", poly |-> poly,
                   evalPoint |-> evalPoint,
                   ret |-> EvaluateLagrangePolynomial(domain, poly, evalPoint)]
    /\ UNCHANGED <<size, domain, locals, pc, units, points, wg>>

NextDomain == DoReverseRoots \/ DoEvaluateLagrangePolynomial

SpecDomain == InitDomain /\ [][NextDomain]_vars

----------------------------------------------------------------------------
(* Properties of the domain *)

\* x is the least power of two that is at least m
IsNextPowerOfTwo(x, m) ==
    /\ \A q \in 2 .. x : x % q = 0 => q % 2 = 0
    /\ x >= m
    /\ x = 1 \/ x \div 2 < m

\* g has multiplicative order exactly x
HasOrder(g, x) ==
    /\ frExp(g, x) = 1
    /\ \A k \in 1 .. (x - 1) : frExp(g, k) # 1

\* C5: NewDomain(size) panics exactly when the next power of two x >= size
\* exceeds 2^maxOrderRoot; otherwise Cardinality = x, Roots and
\* PreComputedInverses have x elements, Roots[0] = 1, each root is the one
\* before it times Generator, Generator has order exactly x (the roots are
\* pairwise distinct), CardinalityInv * x = 1 and Roots[i] *
\* PreComputedInverses[i] = 1 at every index.
C5_NewDomain ==
    call.op = "NewDomain" =>
        \E x \in 1 .. (2 * MaxSize + 2) :
            /\ IsNextPowerOfTwo(x, size)
            /\ domain.panic <=> x > Pow2(maxOrderRoot)
            /\ ~domain.panic =>
                  /\ domain.Cardinality = x
                  /\ DOMAIN domain.Roots = 0 .. (x - 1)
                  /\ DOMAIN domain.PreComputedInverses = 0 .. (x - 1)
                  /\ domain.Roots[0] = 1
                  /\ \A i \in 1 .. (x - 1) :
                        domain.Roots[i] = frMul(domain.Roots[i - 1], domain.Generator)
                  /\ HasOrder(domain.Generator, x)
                  /\ \A i, j \in 0 .. (x - 1) :
                        i # j => domain.Roots[i] # domain.Roots[j]
                  /\ frMul(domain.CardinalityInv, x % Modulus) = 1
                  /\ \A i \in 0 .. (x - 1) :
                        frMul(domain.Roots[i], domain.PreComputedInverses[i]) = 1

\* C5 witnesses: the trivial domains of sizes 0 and 1, a domain of the
\* largest order, and a size past the 2-adicity
C5_Witness ==
    /\ call.op = "NewDomain"
    /\ size = Pow2(maxOrderRoot) - 1
    /\ ~domain.panic
    /\ domain.Cardinality = Pow2(maxOrderRoot)

C5_WitnessPanic ==
    call.op = "NewDomain" /\ size = Pow2(maxOrderRoot + 1) /\ domain.panic

C5_WitnessTrivial ==
    call.op = "NewDomain" /\ size = 0 /\ ~domain.panic /\ domain.Cardinality = 1

\* C2: in every Domain reached from NewDomain by any number of ReverseRoots
\* calls, the cardinality is the one NewDomain set, Roots[i] *
\* PreComputedInverses[i] = 1 at every index, and EvaluateLagrangePolynomial
\* of a polynomial of Cardinality elements at Roots[i] succeeds with poly[i].
C2_EvaluateAtRoots ==
    ~domain.panic =>
        /\ IsNextPowerOfTwo(domain.Cardinality, size)
        /\ DOMAIN domain.Roots = 0 .. (domain.Cardinality - 1)
        /\ \A i \in DOMAIN domain.Roots :
              frMul(domain.Roots[i], domain.PreComputedInverses[i]) = 1
        /\ call.op = "EvaluateLagrangePolynomial" /\ len(call.poly) = domain.Cardinality =>
              \A i \in DOMAIN domain.Roots :
                  domain.Roots[i] = call.evalPoint =>
                      call.ret = [out |-> call.poly[i], err |-> Nil]

\* the Roots of the domain are not in the order NewDomain built them in
Reversed == \E i \in DOMAIN domain.Roots : domain.Roots[i] # frExp(domain.Generator, i)

\* C2 witness: a polynomial with distinct neighbours evaluated at the root
\* that a reversal moved to index 1
C2_Witness ==
    /\ ~domain.panic
    /\ domain.Cardinality = 4
    /\ Reversed
    /\ call.op = "EvaluateLagrangePolynomial"
    /\ len(call.poly) = 4
    /\ call.evalPoint = domain.Roots[1]
    /\ call.poly[1] # call.poly[2]
    /\ call.ret.out = call.poly[1]

\* The product over j # i, j >= from, of (z - roots[j]) / (roots[i] - roots[j])
RECURSIVE basisFrom(_, _, _, _)
basisFrom(roots, i, z, from) ==
    IF from >= len(roots) THEN 1
    ELSE IF from = i THEN basisFrom(roots, i, z, from + 1)
    ELSE frMul(frMul(frSub(z, roots[from]), frInverse(frSub(roots[i], roots[from]))),
               basisFrom(roots, i, z, from + 1))

\* The value at z of the polynomial of degree < len(roots) through the
\* points (roots[i], poly[i]), from index i on
RECURSIVE interpolateFrom(_, _, _, _)
interpolateFrom(roots, poly, z, i) ==
    IF i >= len(roots) THEN 0
    ELSE frAdd(frMul(poly[i], basisFrom(roots, i, z, 0)),
               interpolateFrom(roots, poly, z, i + 1))

\* C8: EvaluateLagrangePolynomial(poly, z) at a z that is no domain root
\* returns the value at z of the interpolant of degree < N through
\* (Roots[i], poly[i]); when len(poly) # N it returns the size-mismatch
\* error and no value.
C8_Barycentric ==
    call.op = "EvaluateLagrangePolynomial" =>
        /\ len(call.poly) # domain.Cardinality =>
              call.ret = [out |-> NilElement, err |-> ErrPolynomialMismatchedSizeDomain]
        /\ /\ len(call.poly) = domain.Cardinality
           /\ \A i \in DOMAIN domain.Roots : domain.Roots[i] # call.evalPoint
           => call.ret = [out |-> interpolateFrom(domain.Roots, call.poly, call.evalPoint, 0),
                          err |-> Nil]

\* C8 witness: a non-constant polynomial on a reversed domain of four roots,
\* evaluated off the domain to a value that is none of its elements' sum
C8_Witness ==
    /\ call.op = "EvaluateLagrangePolynomial"
    /\ domain.Cardinality = 4
    /\ Reversed
    /\ len(call.poly) = 4
    /\ call.poly[0] # call.poly[1]
    /\ \A i \in DOMAIN domain.Roots : domain.Roots[i] # call.evalPoint
    /\ call.ret.err = Nil
    /\ call.ret.out \notin Coeffs

C8_WitnessMismatch ==
    /\ call.op = "EvaluateLagrangePolynomial"
    /\ len(call.poly) = 3
    /\ domain.Cardinality = 4
    /\ call.ret.err = ErrPolynomialMismatchedSizeDomain

----------------------------------------------------------------------------
(* The batched evaluator: a Domain built by NewDomain(size), reversed any  *)
(* number of times, and read by EvaluateLagrangePolynomials on equal-length *)
(* lists of polynomials of Cardinality elements and of evaluation points.  *)

BatchCoeffs == {1, 2}

BatchPolys(n) == [0 .. (n - 1) -> BatchCoeffs]

\* 1 and -1 are roots of every domain of two or more elements; 0 and 2 are
\* roots of none of at most four
BatchPoints == {0, 1, 2, Modulus - 1}

InitBatch ==
    /\ size \in 0 .. MaxPolyLen
    /\ domain = NewDomain(size)
    /\ call = [op |-> "NewDomain"]
    /\ locals = Idle /\ pc = "idle" /\ units = EmptyList /\ points = EmptyList /\ wg = 0

DoEvaluateLagrangePolynomials ==
    /\ ~domain.panic
    /\ call.op \in {"NewDomain", "ReverseRoots"}
    /\ \E n \in 0 .. MaxPairs :
          \E polys \in [0 .. (n - 1) -> BatchPolys(domain.Cardinality)],
             evalPoints \in [0 .. (n - 1) -> BatchPoints] :
             call' = [op |-> "EvaluateLagrangePolynomials", polys |-> polys,
                      evalPoints |-> evalPoints,
                      ret |-> EvaluateLagrangePolynomials(domain, polys, evalPoints)]
    /\ UNCHANGED <<size, domain, locals, pc, units, points, wg>>

NextBatch == DoReverseRoots \/ DoEvaluateLagrangePolynomials

SpecBatch == InitBatch /\ [][NextBatch]_vars

\* C1: EvaluateLagrangePolynomials(polys, evalPoints) completes and its i-th
\* entry is what EvaluateLagrangePolynomial(polys[i], evalPoints[i]) returns,
\* for any number of pairs and any mix of points inside and outside the
\* domain.
C1_BatchEqualsSingle ==
    call.op = "EvaluateLagrangePolynomials" =>
        /\ ~call.ret.panic
        /\ DOMAIN call.ret.evaluations = DOMAIN call.polys
        /\ \A i \in DOMAIN call.polys :
              EvaluateLagrangePolynomial(domain, call.polys[i], call.evalPoints[i])
                  = [out |-> call.ret.evaluations[i], err |-> Nil]

\* C1, the part that completes: when the batched evaluator returns, its
\* entries are those of the single-point evaluator.
C1_BatchEqualsSingleWhenItReturns ==
    call.op = "EvaluateLagrangePolynomials" /\ ~call.ret.panic =>
        \A i \in DOMAIN call.polys :
            EvaluateLagrangePolynomial(domain, call.polys[i], call.evalPoints[i])
                = [out |-> call.ret.evaluations[i], err |-> Nil]

\* C1, the part that is a single pair off the domain
C1_SinglePairOffDomain ==
    /\ call.op = "EvaluateLagrangePolynomials"
    /\ len(call.polys) = 1
    /\ ~isInDomain(domain, call.evalPoints[0])
    => /\ ~call.ret.panic
       /\ EvaluateLagrangePolynomial(domain, call.polys[0], call.evalPoints[0])
              = [out |-> call.ret.evaluations[0], err |-> Nil]

----------------------------------------------------------------------------
(* serialisation.go *)

\* The integer a byte string holds, big-endian, after the bytes before i
RECURSIVE beValueFrom(_, _, _)
beValueFrom(byts, i, acc) ==
    IF i >= len(byts) THEN acc ELSE beValueFrom(byts, i + 1, acc * 256 + byts[i])

beValue(byts) == beValueFrom(byts, 0, 0)

\* The n bytes of v, big-endian
beBytes(v, n) == [i \in 0 .. (n - 1) |-> (v \div (256 ^ (n - 1 - i))) % 256]

\* utils.ReverseArray: the bytes in the opposite order
ReverseArray(arr) == [i \in DOMAIN arr |-> arr[len(arr) - 1 - i]]

\* utils.ReduceCanonical: the field element of a big-endian byte string and
\* whether the integer it holds is below the modulus
ReduceCanonical(byts) ==
    [scalar |-> beValue(byts) % Modulus, isCanon |-> beValue(byts) < Modulus]

ErrNotCanonical == "scalar is not in canonical format"

deserialiseScalarNoCheck(serScalar) ==
    [scalar |-> ReduceCanonical(ReverseArray(serScalar)).scalar, err |-> Nil]

deserialiseScalar(serScalar) ==
    LET reversed == ReverseArray(serScalar)
        r        == ReduceCanonical(reversed)
    IN  IF ~r.isCanon
        THEN [scalar |-> 0, err |-> ErrNotCanonical]
        ELSE [scalar |-> r.scalar, err |-> Nil]

\* The loop of deserialisePoly from index i on; a nil Polynomial is the
\* slice of no elements
RECURSIVE deserialisePolyFromPartial(_, _, _)
deserialisePolyFromPartial(serPoly, poly, i) ==
    IF i >= len(serPoly) THEN [poly |-> poly, err |-> Nil]
    ELSE LET r == deserialiseScalar(serPoly[i])
         IN  IF r.err # Nil THEN [poly |-> poly, err |-> r.err]
             ELSE deserialisePolyFromPartial(serPoly, [poly EXCEPT ![i] = r.scalar], i + 1)

RECURSIVE deserialisePolyFrom(_, _, _)
deserialisePolyFrom(serPoly, poly, i) ==
    IF i >= len(serPoly) THEN [poly |-> poly, err |-> Nil]
    ELSE LET r == deserialiseScalar(serPoly[i])
         IN  IF r.err # Nil THEN [poly |-> EmptyList, err |-> r.err]
             ELSE deserialisePolyFrom(serPoly, [poly EXCEPT ![i] = r.scalar], i + 1)

deserialisePoly(serPoly) ==
    deserialisePolyFrom(serPoly, [i \in DOMAIN serPoly |-> 0], 0)

\* The loop of deserialisePolys from index i on; polys grows by append
RECURSIVE deserialisePolysFrom(_, _, _)
deserialisePolysFrom(serPolys, polys, i) ==
    IF i >= len(serPolys) THEN [polys |-> polys, err |-> Nil]
    ELSE LET r == deserialisePoly(serPolys[i])
         IN  IF r.err # Nil THEN [polys |-> EmptyList, err |-> r.err]
             ELSE deserialisePolysFrom(serPolys,
                      [k \in 0 .. len(polys) |-> IF k < len(polys) THEN polys[k] ELSE r.poly],
                      i + 1)

deserialisePolys(serPolys) == deserialisePolysFrom(serPolys, EmptyList, 0)

\* G1Affine.SetBytes (gnark-crypto), scaled: G1 is the group Z_Modulus of
\* prime order, a compressed point is the big-endian code of its element;
\* the codes Modulus..2*Modulus-1 stand for curve points outside the
\* subgroup and every larger code for bytes that encode no curve point
\* SetBytes refuses fewer bytes than a compressed point has and reads no
\* more than that many
ErrNotOnCurve == "invalid compressed coordinate"
ErrNotInSubgroup == "invalid point: subgroup check failed"
ErrShortBuffer == "short buffer"

G1 == 0 .. (Modulus - 1)

pointSetBytes(byts, n) ==
    LET code == beValue([i \in 0 .. (n - 1) |-> byts[i]])
    IN  IF len(byts) < n THEN [point |-> 0, err |-> ErrShortBuffer]
        ELSE IF code < Modulus THEN [point |-> code, err |-> Nil]
        ELSE IF code < 2 * Modulus THEN [point |-> 0, err |-> ErrNotInSubgroup]
        ELSE [point |-> 0, err |-> ErrNotOnCurve]

g1SetBytes(byts) == pointSetBytes(byts, COMPRESSED_G1_SIZE)

\* G1Affine.Bytes
g1Bytes(point) == beBytes(point, COMPRESSED_G1_SIZE)

deserialiseG1Point(serPoint) ==
    LET r == g1SetBytes(serPoint)
    IN  IF r.err # Nil THEN [point |-> 0, err |-> r.err] ELSE [point |-> r.point, err |-> Nil]

\* The loop of deserialiseComms from index i on
RECURSIVE deserialiseCommsFrom(_, _, _)
deserialiseCommsFrom(serComms, comms, i) ==
    IF i >= len(serComms) THEN [comms |-> comms, err |-> Nil]
    ELSE LET r == deserialiseG1Point(serComms[i])
         IN  IF r.err # Nil THEN [comms |-> EmptyList, err |-> r.err]
             ELSE deserialiseCommsFrom(serComms, [comms EXCEPT ![i] = r.point], i + 1)

deserialiseComms(serComms) ==
    deserialiseCommsFrom(serComms, [i \in DOMAIN serComms |-> 0], 0)

----------------------------------------------------------------------------
(* The deserialisers as a state machine: call holds one call of one of     *)
(* them on bytes from outside, and what it returned; they keep no state,   *)
(* so calls are modelled one per behaviour.                                *)

\* The n bytes of v, little-endian: the wire format of a scalar
leBytes(v, n) == [i \in 0 .. (n - 1) |-> (v \div (256 ^ i)) % 256]

\* The integer a little-endian byte string holds
RECURSIVE leValueFrom(_, _)
leValueFrom(byts, i) ==
    IF i >= len(byts) THEN 0 ELSE byts[i] + 256 * leValueFrom(byts, i + 1)

leValue(byts) == leValueFrom(byts, 0)

\* 0, 1, modulus - 1, modulus, modulus + 1, a multiple of the modulus, the
\* least value of two bytes, a value whose bytes read backwards are
\* canonical, and the largest value
ScalarValues ==
    {0, 1, Modulus - 1, Modulus, Modulus + 1, 2 * Modulus, 256, 256 * (Modulus - 1),
     256 ^ SERIALISED_SCALAR_SIZE - 1}

ScalarInputs == {leBytes(v, SERIALISED_SCALAR_SIZE) : v \in ScalarValues}

PolyScalarInputs ==
    {leBytes(v, SERIALISED_SCALAR_SIZE) : v \in {1, Modulus - 1, Modulus, 256}}

SerPolyInputs == [0 .. (FIELD_ELEMENTS_PER_BLOB - 1) -> PolyScalarInputs]

FewSerPolyInputs ==
    [0 .. (FIELD_ELEMENTS_PER_BLOB - 1) ->
        {leBytes(v, SERIALISED_SCALAR_SIZE) : v \in {1, Modulus}}]

\* the identity, a subgroup point, the last subgroup point, a curve point
\* outside the subgroup, and bytes that are no point
SerCommInputs ==
    {beBytes(c, COMPRESSED_G1_SIZE) : c \in {0, 5, Modulus + 1, 2 * Modulus + 6}}

InitSer ==
    /\ call = Idle
    /\ size = 0 /\ domain = Idle
    /\ locals = Idle /\ pc = "idle" /\ units = EmptyList /\ points = EmptyList /\ wg = 0

DoDeserialiseScalar ==
    /\ call = Idle
    /\ \E serScalar \in ScalarInputs :
          call' = [op |-> "deserialiseScalar", ser |-> serScalar,
                   ret |-> deserialiseScalar(serScalar)]
    /\ UNCHANGED <<size, domain, locals, pc, units, points, wg>>

DoDeserialisePoly ==
    /\ call = Idle
    /\ \E serPoly \in SerPolyInputs :
          call' = [op |-> "deserialisePoly", ser |-> serPoly,
                   ret |-> deserialisePoly(serPoly)]
    /\ UNCHANGED <<size, domain, locals, pc, units, points, wg>>

DoDeserialisePolys ==
    /\ call = Idle
    /\ \E n \in 0 .. MaxPolys :
          \E serPolys \in [0 .. (n - 1) -> FewSerPolyInputs] :
             call' = [op |-> "deserialisePolys", ser |-> serPolys,
                      ret |-> deserialisePolys(serPolys)]
    /\ UNCHANGED <<size, domain, locals, pc, units, points, wg>>

DoDeserialiseComms ==
    /\ call = Idle
    /\ \E n \in 0 .. MaxComms :
          \E serComms \in [0 .. (n - 1) -> SerCommInputs] :
             call' = [op |-> "deserialiseComms", ser |-> serComms,
                      ret |-> deserialiseComms(serComms)]
    /\ UNCHANGED <<size, domain, locals, pc, units, points, wg>>

NextSer ==
    \/ DoDeserialiseScalar
    \/ DoDeserialisePoly
    \/ DoDeserialisePolys
    \/ DoDeserialiseComms

SpecSer == InitSer /\ [][NextSer]_vars

----------------------------------------------------------------------------
(* Properties of the deserialisers *)

\* C3: deserialiseScalar accepts a little-endian value exactly when the
\* integer it encodes is below the modulus: a value >= modulus gives the
\* non-canonical-scalar error and the zero element, never the value reduced
\* modulo the field; a value < modulus gives the field element of that value.
C3_CanonicalScalar ==
    call.op = "deserialiseScalar" =>
        /\ leValue(call.ser) >= Modulus =>
              call.ret = [scalar |-> 0, err |-> ErrNotCanonical]
        /\ leValue(call.ser) < Modulus =>
              call.ret = [scalar |-> leValue(call.ser), err |-> Nil]

\* C3 witness: the modulus itself is refused
C3_Witness ==
    /\ call.op = "deserialiseScalar"
    /\ leValue(call.ser) = Modulus
    /\ call.ret.err = ErrNotCanonical

\* modulus - 1 is accepted
C3_WitnessAccept ==
    /\ call.op = "deserialiseScalar"
    /\ leValue(call.ser) = Modulus - 1
    /\ call.ret = [scalar |-> Modulus - 1, err |-> Nil]

\* a value that is not canonical but reduces to a non-zero element
C3_WitnessNotReduced ==
    /\ call.op = "deserialiseScalar"
    /\ leValue(call.ser) = Modulus + 1
    /\ call.ret = [scalar |-> 0, err |-> ErrNotCanonical]

Canonical(serScalar) == leValue(serScalar) < Modulus

\* The least index of list whose element is in bad
LeastBad(list, bad) ==
    CHOOSE i \in DOMAIN list :
        /\ list[i] \in bad
        /\ \A j \in DOMAIN list : list[j] \in bad => i <= j

NotCanonicalIn(serPoly) == {serPoly[i] : i \in {j \in DOMAIN serPoly : ~Canonical(serPoly[j])}}

NotPointIn(serComms) ==
    {serComms[i] : i \in {j \in DOMAIN serComms : beValue(serComms[j]) >= Modulus}}

BadPolyIn(serPolys) ==
    {serPolys[i] : i \in {j \in DOMAIN serPolys : NotCanonicalIn(serPolys[j]) # {}}}

\* C7: deserialisePoly returns a polynomial exactly when every serialised
\* scalar is canonical, and otherwise the error of the lowest-index
\* non-canonical element with a nil polynomial, never a partly filled one;
\* deserialiseComms and deserialisePolys do the same over their lists.
C7_FailFast ==
    /\ call.op = "deserialisePoly" =>
          IF NotCanonicalIn(call.ser) = {}
          THEN call.ret = [poly |-> [i \in DOMAIN call.ser |-> leValue(call.ser[i])],
                           err |-> Nil]
          ELSE call.ret =
                 [poly |-> EmptyList,
                  err |-> deserialiseScalar(
                              call.ser[LeastBad(call.ser, NotCanonicalIn(call.ser))]).err]
    /\ call.op = "deserialiseComms" =>
          IF NotPointIn(call.ser) = {}
          THEN call.ret = [comms |-> [i \in DOMAIN call.ser |-> beValue(call.ser[i])],
                           err |-> Nil]
          ELSE call.ret =
                 [comms |-> EmptyList,
                  err |-> g1SetBytes(call.ser[LeastBad(call.ser, NotPointIn(call.ser))]).err]
    /\ call.op = "deserialisePolys" =>
          IF BadPolyIn(call.ser) = {}
          THEN call.ret =
                 [polys |-> [i \in DOMAIN call.ser |->
                                [j \in DOMAIN call.ser[i] |-> leValue(call.ser[i][j])]],
                  err |-> Nil]
          ELSE call.ret = [polys |-> EmptyList, err |-> ErrNotCanonical]

\* C7 witness: a blob whose first scalar decodes and whose second does not
C7_Witness ==
    /\ call.op = "deserialisePoly"
    /\ Canonical(call.ser[0])
    /\ leValue(call.ser[0]) # 0
    /\ ~Canonical(call.ser[1])
    /\ call.ret = [poly |-> EmptyList, err |-> ErrNotCanonical]

\* commitments whose first bad element is outside the subgroup and whose
\* next is no point at all
C7_WitnessComms ==
    /\ call.op = "deserialiseComms"
    /\ len(call.ser) = 3
    /\ g1SetBytes(call.ser[0]).err = Nil
    /\ g1SetBytes(call.ser[1]).err = ErrNotInSubgroup
    /\ g1SetBytes(call.ser[2]).err = ErrNotOnCurve
    /\ call.ret = [comms |-> EmptyList, err |-> ErrNotInSubgroup]

C7_WitnessPolys ==
    /\ call.op = "deserialisePolys"
    /\ len(call.ser) = 2
    /\ NotCanonicalIn(call.ser[0]) = {}
    /\ NotCanonicalIn(call.ser[1]) # {}
    /\ call.ret = [polys |-> EmptyList, err |-> ErrNotCanonical]

----------------------------------------------------------------------------
(* internal/multiexp/multiexp.go *)

\* a nil *curve.G1Affine
NilPoint == -1

\* The group law of G1 and the multiple of a point by a scalar
g1Add(p, q) == (p + q) % Modulus
g1ScalarMul(scalar, p) == (scalar * p) % Modulus

\* G1Affine.MultiExp (gnark-crypto): the points times their scalars, added
\* up from index i on
RECURSIVE g1MultiExpFrom(_, _, _, _)
g1MultiExpFrom(pts, scalars, i, acc) ==
    IF i >= len(pts) THEN acc
    ELSE g1MultiExpFrom(pts, scalars, i + 1,
                        g1Add(acc, g1ScalarMul(scalars[i], pts[i])))

ErrMultiExpLength == "number of scalars != number of points"
ErrMultiExpEmpty == "no scalars"

MultiExpEmptyIsError(scalars, pts) ==
    IF len(scalars) # len(pts)
    THEN [point |-> NilPoint, err |-> ErrMultiExpLength]
    ELSE IF len(scalars) = 0
    THEN [point |-> NilPoint, err |-> ErrMultiExpEmpty]
    ELSE [point |-> g1MultiExpFrom(pts, scalars, 0, 0), err |-> Nil]

MultiExp(scalars, pts) ==
    LET len_scalars == len(scalars)
        len_points  == len(pts)
    IN  IF len_scalars # len_points
        THEN [point |-> NilPoint, err |-> ErrMultiExpLength]
        ELSE IF len(scalars) = 0
        THEN [point |-> 0, err |-> Nil]
        ELSE [point |-> g1MultiExpFrom(pts, scalars, 0, 0), err |-> Nil]

----------------------------------------------------------------------------
(* MultiExp as a state machine: call holds one call and what it returned;  *)
(* the function keeps no state, so calls are modelled one per behaviour.   *)

MultiExpScalars == {0, 1, 2, Modulus - 1}
MultiExpPoints == {0, 1, 5}

InitMultiExp ==
    /\ call = Idle
    /\ size = 0 /\ domain = Idle
    /\ locals = Idle /\ pc = "idle" /\ units = EmptyList /\ points = EmptyList /\ wg = 0

DoMultiExp ==
    /\ call = Idle
    /\ \E n, k \in 0 .. MaxMultiExp :
          \E scalars \in [0 .. (n - 1) -> MultiExpScalars],
             pts \in [0 .. (k - 1) -> MultiExpPoints] :
             call' = [op |-> "MultiExp", scalars |-> scalars, points |-> pts,
                      ret |-> MultiExp(scalars, pts)]
    /\ UNCHANGED <<size, domain, locals, pc, units, points, wg>>

NextMultiExp == DoMultiExp

SpecMultiExp == InitMultiExp /\ [][NextMultiExp]_vars

\* The bijections of a set of indices onto itself
Bijections(S) == {f \in [S -> S] : \A i, j \in S : f[i] = f[j] => i = j}

\* The sum over the indices in S of scalars[i] * points[i], in any order
RECURSIVE SumOver(_, _, _)
SumOver(S, scalars, pts) ==
    IF S = {} THEN 0
    ELSE LET i == CHOOSE j \in S : \A k \in S : j >= k
         IN  (scalars[i] * pts[i] + SumOver(S \ {i}, scalars, pts)) % Modulus

\* C4: MultiExp returns an error and no point exactly when the lengths
\* differ; for equal lengths it returns the sum of scalars[i]*points[i]: the
\* identity (no error) for empty lists, P for ([1], [P]), and the same point
\* when one permutation is applied to both lists.
C4_MultiExp ==
    call.op = "MultiExp" =>
        /\ call.ret.err # Nil <=> len(call.scalars) # len(call.points)
        /\ call.ret.err # Nil => call.ret.point = NilPoint
        /\ call.ret.err = Nil =>
              /\ call.ret.point = SumOver(DOMAIN call.scalars, call.scalars, call.points)
              /\ len(call.scalars) = 0 => call.ret.point = 0
              /\ len(call.scalars) = 1 /\ call.scalars[0] = 1 =>
                    call.ret.point = call.points[0]
              /\ \A f \in Bijections(DOMAIN call.scalars) :
                    MultiExp([i \in DOMAIN call.scalars |-> call.scalars[f[i]]],
                             [i \in DOMAIN call.points |-> call.points[f[i]]]) = call.ret

\* C4 witness: three different terms whose sum is none of them
C4_Witness ==
    /\ call.op = "MultiExp"
    /\ len(call.scalars) = 3 /\ len(call.points) = 3
    /\ call.scalars[0] # call.scalars[1] /\ call.points[1] # call.points[2]
    /\ call.ret.err = Nil
    /\ call.ret.point \notin {g1ScalarMul(call.scalars[i], call.points[i]) : i \in 0 .. 2}
    /\ call.ret.point # 0

C4_WitnessEmpty ==
    /\ call.op = "MultiExp"
    /\ len(call.scalars) = 0 /\ len(call.points) = 0
    /\ call.ret = [point |-> 0, err |-> Nil]

C4_WitnessMismatch ==
    /\ call.op = "MultiExp"
    /\ len(call.scalars) = 0 /\ len(call.points) = 1
    /\ call.ret = [point |-> NilPoint, err |-> ErrMultiExpLength]

----------------------------------------------------------------------------
(* The trusted setup: CheckTrustedSetupWellFormed *)

\* serialization.ScalarsPerBlob (4096 in the source): the length of SetupG1
\* and of SetupG1Lagrange, a power of two
ScalarsPerBlob == 4

\* the bytes of a compressed G2 point: twice those of a G1 point
COMPRESSED_G2_SIZE == 2 * COMPRESSED_G1_SIZE

\* A string is the list of its characters
LowerDigits ==
    <<"0", "1", "2", "3", "4", "5", "6", "7", "8", "9", "a", "b", "c", "d", "e", "f">>
UpperDigits ==
    <<"0", "1", "2", "3", "4", "5", "6", "7", "8", "9", "A", "B", "C", "D", "E", "F">>

\* encoding/hex: the value of a hex digit of either case, or -1
fromHexChar(c) ==
    IF \E v \in 1 .. 16 : LowerDigits[v] = c
    THEN (CHOOSE v \in 1 .. 16 : LowerDigits[v] = c) - 1
    ELSE IF \E v \in 1 .. 16 : UpperDigits[v] = c
    THEN (CHOOSE v \in 1 .. 16 : UpperDigits[v] = c) - 1
    ELSE -1

\* hex.EncodeToString: two lower-case digits a byte
hexEncodeToString(byts) ==
    [k \in 0 .. (2 * len(byts) - 1) |->
        IF k % 2 = 0 THEN LowerDigits[(byts[k \div 2] \div 16) + 1]
        ELSE LowerDigits[(byts[k \div 2] % 16) + 1]]

ErrHexInvalidByte == "encoding/hex: invalid byte"
ErrHexLength == "encoding/hex: odd length hex string"

\* hex.DecodeString: the pairs of digits in turn, then the odd digit left
RECURSIVE hexDecodeFrom(_, _, _)
hexDecodeFrom(str, byts, j) ==
    IF j < len(str)
    THEN LET a == fromHexChar(str[j - 1])
             b == fromHexChar(str[j])
         IN  IF a = -1 \/ b = -1 THEN [byts |-> byts, err |-> ErrHexInvalidByte]
             ELSE hexDecodeFrom(str,
                      [k \in 0 .. len(byts) |-> IF k < len(byts) THEN byts[k] ELSE a * 16 + b],
                      j + 2)
    ELSE IF len(str) % 2 = 1
    THEN IF fromHexChar(str[j - 1]) = -1
         THEN [byts |-> byts, err |-> ErrHexInvalidByte]
         ELSE [byts |-> byts, err |-> ErrHexLength]
    ELSE [byts |-> byts, err |-> Nil]

hexDecodeString(str) == hexDecodeFrom(str, EmptyList, 1)

\* G2Affine.SetBytes
g2SetBytes(byts) == pointSetBytes(byts, COMPRESSED_G2_SIZE)

\* Domain.IfftG1: the inverse FFT of G1 points over the domain,
\* out[i] = (1/n) * sum over j of Generator^(-i*j) * pts[j]
RECURSIVE ifftSumFrom(_, _, _, _)
ifftSumFrom(d, pts, i, j) ==
    IF j >= len(pts) THEN 0
    ELSE g1Add(g1ScalarMul(frExp(d.GeneratorInv, i * j), pts[j]),
               ifftSumFrom(d, pts, i, j + 1))

IfftG1(d, pts) ==
    [i \in DOMAIN pts |-> g1ScalarMul(d.CardinalityInv, ifftSumFrom(d, pts, i, 0))]

errLagrangeMonomialLengthMismatch == "errLagrangeMonomialLengthMismatch"
ErrUnexpectedLagrange == "unexpected lagrange setup being used"

\* The loop over SetupG1 from index i on: the points decoded so far, or the
\* first error
RECURSIVE setupG1PointsFrom(_, _, _)
setupG1PointsFrom(SetupG1, setupG1Points, i) ==
    IF i >= len(SetupG1) THEN [pts |-> setupG1Points, err |-> Nil]
    ELSE LET h == hexDecodeString(SetupG1[i])
             r == g1SetBytes(h.byts)
         IN  IF h.err # Nil THEN [pts |-> EmptyList, err |-> h.err]
             ELSE IF r.err # Nil THEN [pts |-> EmptyList, err |-> r.err]
             ELSE setupG1PointsFrom(SetupG1,
                      [k \in 0 .. len(setupG1Points) |->
                          IF k < len(setupG1Points) THEN setupG1Points[k] ELSE r.point],
                      i + 1)

\* The loop over the computed Lagrange points from index i on
RECURSIVE lagrangeCheckFrom(_, _, _)
lagrangeCheckFrom(setupLagrangeG1, SetupG1Lagrange, i) ==
    IF i >= len(setupLagrangeG1) THEN Nil
    ELSE IF hexEncodeToString(g1Bytes(setupLagrangeG1[i])) # SetupG1Lagrange[i]
    THEN ErrUnexpectedLagrange
    ELSE lagrangeCheckFrom(setupLagrangeG1, SetupG1Lagrange, i + 1)

\* The loop over SetupG2 from index i on
RECURSIVE setupG2CheckFrom(_, _)
setupG2CheckFrom(SetupG2, i) ==
    IF i >= len(SetupG2) THEN Nil
    ELSE LET h == hexDecodeString(SetupG2[i])
             r == g2SetBytes(h.byts)
         IN  IF h.err # Nil THEN h.err
             ELSE IF r.err # Nil THEN r.err
             ELSE setupG2CheckFrom(SetupG2, i + 1)

CheckTrustedSetupWellFormedNoG2(trustedSetup) ==
    IF len(trustedSetup.SetupG1) # len(trustedSetup.SetupG1Lagrange)
    THEN errLagrangeMonomialLengthMismatch
    ELSE LET g1 == setupG1PointsFrom(trustedSetup.SetupG1, EmptyList, 0)
         IN  IF g1.err # Nil THEN g1.err
             ELSE lagrangeCheckFrom(IfftG1(NewDomain(ScalarsPerBlob), g1.pts),
                                    trustedSetup.SetupG1Lagrange, 0)

CheckTrustedSetupWellFormed(trustedSetup) ==
    IF len(trustedSetup.SetupG1) # len(trustedSetup.SetupG1Lagrange)
    THEN errLagrangeMonomialLengthMismatch
    ELSE LET g1 == setupG1PointsFrom(trustedSetup.SetupG1, EmptyList, 0)
         IN  IF g1.err # Nil THEN g1.err
             ELSE LET d               == NewDomain(ScalarsPerBlob)
                      setupLagrangeG1 == IfftG1(d, g1.pts)
                      lag == lagrangeCheckFrom(setupLagrangeG1,
                                               trustedSetup.SetupG1Lagrange, 0)
                  IN  IF lag # Nil THEN lag
                      ELSE setupG2CheckFrom(trustedSetup.SetupG2, 0)

----------------------------------------------------------------------------
(* CheckTrustedSetupWellFormed as a state machine: call holds one call on  *)
(* a setup read from outside, and the error it returned.  SetupG1 and      *)
(* SetupG1Lagrange are arrays of ScalarsPerBlob strings.                   *)

hexOfG1(code) == hexEncodeToString(beBytes(code, COMPRESSED_G1_SIZE))
hexOfG2(code) == hexEncodeToString(beBytes(code, COMPRESSED_G2_SIZE))

\* The string with its letters in upper case
ToUpper(str) ==
    [k \in DOMAIN str |->
        IF fromHexChar(str[k]) = -1 THEN str[k] ELSE UpperDigits[fromHexChar(str[k]) + 1]]

NotHex == [k \in 0 .. (2 * COMPRESSED_G1_SIZE - 1) |-> "z"]
OddHex == [k \in 0 .. (2 * COMPRESSED_G1_SIZE - 2) |-> "0"]

SetupIndices == 0 .. (ScalarsPerBlob - 1)

\* SetupG1: points of the subgroup, and lists with one entry in upper
\* case, outside the subgroup, off the curve, or no hex string
SetupG1Inputs ==
    [SetupIndices -> {hexOfG1(1), hexOfG1(12)}]
    \cup {[[i \in SetupIndices |-> hexOfG1(2)] EXCEPT ![k] = bad] :
             k \in SetupIndices,
             bad \in {ToUpper(hexOfG1(12)), hexOfG1(Modulus + 1), hexOfG1(2 * Modulus + 6),
                      NotHex, OddHex}}

\* The Lagrange list that belongs to SetupG1 (all identity points when
\* SetupG1 does not decode)
TrueLagrange(SetupG1) ==
    LET g1 == setupG1PointsFrom(SetupG1, EmptyList, 0)
    IN  IF g1.err # Nil THEN [i \in SetupIndices |-> hexOfG1(0)]
        ELSE LET lag == IfftG1(NewDomain(ScalarsPerBlob), g1.pts)
             IN  [i \in SetupIndices |-> hexOfG1(lag[i])]

\* What one Lagrange entry may be changed to: the same point in upper case,
\* the encoding of the next point, no hex string
Changed(str) ==
    {ToUpper(str), hexOfG1((beValue(hexDecodeString(str).byts) + 1) % Modulus), NotHex}
        \ {str}

\* SetupG1Lagrange: the list that belongs to SetupG1, or that list with one
\* entry changed
SetupG1LagrangeInputs(SetupG1) ==
    {TrueLagrange(SetupG1)}
    \cup {[TrueLagrange(SetupG1) EXCEPT ![k] = other] :
             k \in SetupIndices, other \in UNION {Changed(TrueLagrange(SetupG1)[j]) :
                                                     j \in SetupIndices}}

SetupG2Inputs ==
    UNION {[0 .. (n - 1) -> {hexOfG2(3), hexOfG2(Modulus + 2), NotHex}] : n \in 0 .. MaxG2}

InitSetup ==
    /\ call = Idle
    /\ size = 0 /\ domain = Idle
    /\ locals = Idle /\ pc = "idle" /\ units = EmptyList /\ points = EmptyList /\ wg = 0

DoCheckTrustedSetupWellFormed ==
    /\ call = Idle
    /\ \E SetupG1 \in SetupG1Inputs, SetupG2 \in SetupG2Inputs :
          \E SetupG1Lagrange \in SetupG1LagrangeInputs(SetupG1) :
             LET trustedSetup == [SetupG1 |-> SetupG1, SetupG2 |-> SetupG2,
                                  SetupG1Lagrange |-> SetupG1Lagrange]
             IN  call' = [op |-> "CheckTrustedSetupWellFormed", setup |-> trustedSetup,
                          ret |-> CheckTrustedSetupWellFormed(trustedSetup)]
    /\ UNCHANGED <<size, domain, locals, pc, units, points, wg>>

NextSetup == DoCheckTrustedSetupWellFormed

SpecSetup == InitSetup /\ [][NextSetup]_vars

----------------------------------------------------------------------------
(* Properties of CheckTrustedSetupWellFormed *)

\* str is hex, in either case, for the n bytes of a point of the subgroup
IsSubgroupPointHex(str, n) ==
    \E code \in G1 :
        /\ DOMAIN str = DOMAIN hexEncodeToString(beBytes(code, n))
        /\ \A k \in DOMAIN str :
              str[k] \in {hexEncodeToString(beBytes(code, n))[k],
                          ToUpper(hexEncodeToString(beBytes(code, n)))[k]}

\* the point of the subgroup that str is hex for
SubgroupPointOf(str, n) ==
    CHOOSE code \in G1 : ToUpper(str) = ToUpper(hexEncodeToString(beBytes(code, n)))

\* The FFT of a list of points over the roots generated by gen:
\* out[j] = sum over i of gen^(i*j) * coeffs[i]
RECURSIVE fftSumFrom(_, _, _, _)
fftSumFrom(gen, coeffs, j, i) ==
    IF i >= len(coeffs) THEN 0
    ELSE (frExp(gen, i * j) * coeffs[i] + fftSumFrom(gen, coeffs, j, i + 1)) % Modulus

\* lagrange holds the encodings of the points whose FFT is monomial: it is
\* the inverse FFT of monomial, encoded
IsEncodedInverseFFT(lagrange, monomial) ==
    /\ \A i \in DOMAIN lagrange : \E code \in G1 : lagrange[i] = hexOfG1(code)
    /\ LET coeffs == [i \in DOMAIN lagrange |->
                         CHOOSE code \in G1 : lagrange[i] = hexOfG1(code)]
           gen    == NewDomain(len(monomial)).Generator
       IN  \A j \in DOMAIN monomial : fftSumFrom(gen, coeffs, j, 0) = monomial[j]

WellFormed(trustedSetup) ==
    /\ len(trustedSetup.SetupG1) = len(trustedSetup.SetupG1Lagrange)
    /\ \A i \in DOMAIN trustedSetup.SetupG1 :
          IsSubgroupPointHex(trustedSetup.SetupG1[i], COMPRESSED_G1_SIZE)
    /\ IsEncodedInverseFFT(trustedSetup.SetupG1Lagrange,
                           [i \in DOMAIN trustedSetup.SetupG1 |->
                               SubgroupPointOf(trustedSetup.SetupG1[i], COMPRESSED_G1_SIZE)])
    /\ \A i \in DOMAIN trustedSetup.SetupG2 :
          IsSubgroupPointHex(trustedSetup.SetupG2[i], COMPRESSED_G2_SIZE)

\* C6: CheckTrustedSetupWellFormed succeeds exactly when SetupG1 and
\* SetupG1Lagrange have equal length, every SetupG1 entry decodes with the
\* subgroup check, every SetupG1Lagrange entry is the hex encoding of the
\* same-index point of the inverse FFT of the SetupG1 points, and every
\* SetupG2 entry decodes with the subgroup check; a setup that passes fails
\* with "unexpected lagrange setup" once any one Lagrange entry is changed.
C6_WellFormed ==
    call.op = "CheckTrustedSetupWellFormed" =>
        /\ call.ret = Nil <=> WellFormed(call.setup)
        /\ call.ret = Nil =>
              \A k \in SetupIndices :
                  \A other \in Changed(call.setup.SetupG1Lagrange[k]) :
                      CheckTrustedSetupWellFormed(
                          [call.setup EXCEPT !.SetupG1Lagrange[k] = other])
                        = ErrUnexpectedLagrange

\* C6 witness: a setup of different points that passes, with an entry of
\* SetupG2 to decode and letters in its Lagrange entries
C6_Witness ==
    /\ call.op = "CheckTrustedSetupWellFormed"
    /\ call.ret = Nil
    /\ call.setup.SetupG1[0] # call.setup.SetupG1[1]
    /\ len(call.setup.SetupG2) > 0
    /\ \E k \in SetupIndices : Changed(call.setup.SetupG1Lagrange[k]) # {}
    /\ \E k \in SetupIndices :
          ToUpper(call.setup.SetupG1Lagrange[k]) # call.setup.SetupG1Lagrange[k]

\* one Lagrange entry of an otherwise well-formed setup in upper case
C6_WitnessChanged ==
    /\ call.op = "CheckTrustedSetupWellFormed"
    /\ call.ret = ErrUnexpectedLagrange
    /\ call.setup.SetupG1Lagrange # TrueLagrange(call.setup.SetupG1)
    /\ [k \in SetupIndices |-> ToUpper(call.setup.SetupG1Lagrange[k])]
         = [k \in SetupIndices |-> ToUpper(TrueLagrange(call.setup.SetupG1)[k])]

C6_WitnessG2 ==
    /\ call.op = "CheckTrustedSetupWellFormed"
    /\ call.ret = ErrNotInSubgroup
    /\ call.setup.SetupG1Lagrange = TrueLagrange(call.setup.SetupG1)

----------------------------------------------------------------------------
(* The trusted setup: parseTrustedSetup *)

ErrMinSRSSize == "ErrMinSRSSize"

\* Decoder.Decode with NoSubgroupChecks (gnark-crypto): as SetBytes, but a
\* curve point outside the subgroup is decoded too
pointDecodeNoSubgroupCheck(byts, n) ==
    LET code == beValue([i \in 0 .. (n - 1) |-> byts[i]])
    IN  IF len(byts) < n THEN [point |-> 0, err |-> ErrShortBuffer]
        ELSE IF code < 2 * Modulus THEN [point |-> code, err |-> Nil]
        ELSE [point |-> 0, err |-> ErrNotOnCurve]

parseG1PointNoSubgroupCheck(hexString) ==
    LET h == hexDecodeString(hexString)
    IN  IF h.err # Nil THEN [point |-> 0, err |-> h.err]
        ELSE pointDecodeNoSubgroupCheck(h.byts, COMPRESSED_G1_SIZE)

parseG2PointNoSubgroupCheck(hexString) ==
    LET h == hexDecodeString(hexString)
    IN  IF h.err # Nil THEN [point |-> 0, err |-> h.err]
        ELSE pointDecodeNoSubgroupCheck(h.byts, COMPRESSED_G2_SIZE)

----------------------------------------------------------------------------
(* parseTrustedSetup as a state machine.  pc is the position of the        *)
(* calling goroutine; parseG1PointsNoSubgroupCheck (phase "g1") and        *)
(* parseG2PointsNoSubgroupCheck (phase "g2") each have their own point     *)
(* list, WaitGroup and goroutines: points[ph], wg[ph], units[ph].  A       *)
(* goroutine is "unspawned", "ready" (spawned), "stored" (its point        *)
(* written) or "done" (wg.Done called).  A panic in any goroutine ends the *)
(* process: pc = "aborted", and nothing runs any more.                     *)

Phases == {"g1", "g2"}

\* the strings a phase decodes
hexStrings(ph) ==
    IF ph = "g1" THEN call.setup.SetupG1Lagrange ELSE call.setup.SetupG2

parsePoint(ph, hexString) ==
    IF ph = "g1" THEN parseG1PointNoSubgroupCheck(hexString)
    ELSE parseG2PointNoSubgroupCheck(hexString)

\* the phase the calling goroutine is in
phase == IF pc \in {"spawnG1", "waitG1"} THEN "g1" ELSE "g2"

NoReturn == [genG1 |-> 0, lagrange |-> EmptyList, g2Points |-> EmptyList, err |-> Nil]

\* SetupG1: only its first entry is read; a point, a point outside the
\* subgroup, no hex string
ParseSetupG1Inputs ==
    {[[i \in SetupIndices |-> hexOfG1(2)] EXCEPT ![0] = first] :
        first \in {hexOfG1(1), hexOfG1(Modulus + 1), NotHex}}

\* SetupG1Lagrange: different points, and that list with one entry outside
\* the subgroup, off the curve or no hex string, and a list of no points
ParseLagrangeInputs ==
    {[i \in SetupIndices |-> hexOfG1(i + 10)]}
    \cup {[[i \in SetupIndices |-> hexOfG1(i + 10)] EXCEPT ![k] = other] :
             k \in SetupIndices,
             other \in {hexOfG1(Modulus + 1), hexOfG1(2 * Modulus + 6), NotHex}}
    \cup {[i \in SetupIndices |-> OddHex]}

ParseSetupG2Inputs ==
    UNION {[0 .. (n - 1) -> {hexOfG2(5), hexOfG2(Modulus + 5), hexOfG2(2 * Modulus + 1)}] :
             n \in 0 .. MaxG2}

InitParse ==
    /\ \E SetupG1 \in ParseSetupG1Inputs, SetupG1Lagrange \in ParseLagrangeInputs,
          SetupG2 \in ParseSetupG2Inputs :
          call = [op |-> "parseTrustedSetup",
                  setup |-> [SetupG1 |-> SetupG1, SetupG2 |-> SetupG2,
                             SetupG1Lagrange |-> SetupG1Lagrange],
                  ret |-> NoReturn]
    /\ pc = "start"
    /\ locals = [genG1 |-> 0, setupLagrangeG1Points |-> EmptyList, i |-> 0]
    /\ units = [ph \in Phases |-> EmptyList]
    /\ points = [ph \in Phases |-> EmptyList]
    /\ wg = [ph \in Phases |-> 0]
    /\ size = 0 /\ domain = Idle

\* parseG?PointsNoSubgroupCheck up to its loop: make the list, wg.Add(num)
EnterParsePoints(ph, strs) ==
    /\ points' = [points EXCEPT ![ph] = [i \in DOMAIN strs |-> 0]]
    /\ wg' = [wg EXCEPT ![ph] = len(strs)]
    /\ units' = [units EXCEPT ![ph] = [i \in DOMAIN strs |-> "unspawned"]]

\* parseTrustedSetup from its start to the first go statement
ParseStart ==
    /\ pc = "start"
    /\ LET gen == parseG1PointNoSubgroupCheck(call.setup.SetupG1[0])
       IN  IF len(call.setup.SetupG1) < 1
           THEN /\ call' = [call EXCEPT !.ret = [NoReturn EXCEPT !.err = ErrMinSRSSize]]
                /\ pc' = "returned"
                /\ UNCHANGED <<locals, units, points, wg>>
           ELSE IF gen.err # Nil
           THEN /\ call' = [call EXCEPT !.ret = [NoReturn EXCEPT !.err = gen.err]]
                /\ pc' = "returned"
                /\ UNCHANGED <<locals, units, points, wg>>
           ELSE /\ locals' = [locals EXCEPT !.genG1 = gen.point, !.i = 0]
                /\ EnterParsePoints("g1", call.setup.SetupG1Lagrange)
                /\ pc' = "spawnG1"
                /\ UNCHANGED call
    /\ UNCHANGED <<size, domain>>

\* One iteration of the spawning loop: go func(_i int) {...}(i)
Spawn ==
    /\ pc \in {"spawnG1", "spawnG2"}
    /\ locals.i < len(hexStrings(phase))
    /\ units' = [units EXCEPT ![phase][locals.i] = "ready"]
    /\ locals' = [locals EXCEPT !.i = locals.i + 1]
    /\ UNCHANGED <<size, domain, call, pc, points, wg>>

\* The loop ends and the caller reaches wg.Wait()
EndSpawn ==
    /\ pc \in {"spawnG1", "spawnG2"}
    /\ locals.i >= len(hexStrings(phase))
    /\ pc' = IF pc = "spawnG1" THEN "waitG1" ELSE "waitG2"
    /\ UNCHANGED <<size, domain, call, locals, units, points, wg>>

\* a goroutine stores its point in the list
storePointInCompletionOrder(pts, i, point) ==
    [pts EXCEPT ![Cardinality({j \in DOMAIN units[phase] :
                                 units[phase][j] \in {"stored", "done"}})] = point]

storePoint(pts, i, point) == [pts EXCEPT ![i] = point]

\* Goroutine i decodes its string, drops a failure and goes on to wg.Done
UnitParseDropError(i) ==
    /\ pc \in {"spawnG1", "waitG1", "spawnG2", "waitG2"}
    /\ i \in DOMAIN units[phase]
    /\ units[phase][i] = "ready"
    /\ LET r == parsePoint(phase, hexStrings(phase)[i])
       IN  /\ points' = IF r.err # Nil THEN points
                         ELSE [points EXCEPT ![phase] = storePoint(points[phase], i, r.point)]
           /\ units' = [units EXCEPT ![phase][i] = "stored"]
           /\ UNCHANGED pc
    /\ UNCHANGED <<size, domain, call, locals, wg>>

\* Goroutine i decodes its string: panic(err), or g1Points[_i] = g1Point
UnitParse(i) ==
    /\ pc \in {"spawnG1", "waitG1", "spawnG2", "waitG2"}
    /\ i \in DOMAIN units[phase]
    /\ units[phase][i] = "ready"
    /\ LET r == parsePoint(phase, hexStrings(phase)[i])
       IN  IF r.err # Nil
           THEN /\ pc' = "aborted"
                /\ UNCHANGED <<units, points>>
           ELSE /\ points' = [points EXCEPT ![phase] = storePoint(points[phase], i, r.point)]
                /\ units' = [units EXCEPT ![phase][i] = "stored"]
                /\ UNCHANGED pc
    /\ UNCHANGED <<size, domain, call, locals, wg>>

\* Goroutine i calls wg.Done()
UnitDone(i) ==
    /\ pc \in {"spawnG1", "waitG1", "spawnG2", "waitG2"}
    /\ i \in DOMAIN units[phase]
    /\ units[phase][i] = "stored"
    /\ wg' = [wg EXCEPT ![phase] = wg[phase] - 1]
    /\ units' = [units EXCEPT ![phase][i] = "done"]
    /\ UNCHANGED <<size, domain, call, locals, pc, points>>

\* wg.Wait() lets the caller go on when the counter is zero
waitReturns(ph) == wg[ph] = 0

\* parseG1PointsNoSubgroupCheck returns, and parseTrustedSetup goes on to
\* the first go statement of parseG2PointsNoSubgroupCheck
WaitG1 ==
    /\ pc = "waitG1"
    /\ waitReturns("g1")
    /\ locals' = [locals EXCEPT !.setupLagrangeG1Points = points["g1"], !.i = 0]
    /\ EnterParsePoints("g2", call.setup.SetupG2)
    /\ pc' = "spawnG2"
    /\ UNCHANGED <<size, domain, call>>

\* parseG2PointsNoSubgroupCheck returns, and parseTrustedSetup returns
WaitG2 ==
    /\ pc = "waitG2"
    /\ waitReturns("g2")
    /\ call' = [call EXCEPT !.ret = [genG1 |-> locals.genG1,
                                      lagrange |-> locals.setupLagrangeG1Points,
                                      g2Points |-> points["g2"],
                                      err |-> Nil]]
    /\ pc' = "returned"
    /\ UNCHANGED <<size, domain, locals, units, points, wg>>

MaxUnits == ScalarsPerBlob + MaxG2

NextParse ==
    \/ ParseStart
    \/ Spawn
    \/ EndSpawn
    \/ \E i \in 0 .. MaxUnits : UnitParse(i)
    \/ \E i \in 0 .. MaxUnits : UnitDone(i)
    \/ WaitG1
    \/ WaitG2

SpecParse == InitParse /\ [][NextParse]_vars

----------------------------------------------------------------------------
(* Properties of parseTrustedSetup *)

\* str is hex for the n bytes of a curve point, in the subgroup or not
IsCurvePointHex(str, n) ==
    \E code \in 0 .. (2 * Modulus - 1) :
        ToUpper(str) = ToUpper(hexEncodeToString(beBytes(code, n)))

\* the curve point that str is hex for
CurvePointOf(str, n) ==
    CHOOSE code \in 0 .. (2 * Modulus - 1) :
        ToUpper(str) = ToUpper(hexEncodeToString(beBytes(code, n)))

PointSize(ph) == IF ph = "g1" THEN COMPRESSED_G1_SIZE ELSE COMPRESSED_G2_SIZE

\* parseG?PointsNoSubgroupCheck has returned to parseTrustedSetup
HasReturned(ph) ==
    IF ph = "g1" THEN pc \in {"spawnG2", "waitG2"} \/ (pc = "returned" /\ call.ret.err = Nil)
    ELSE pc = "returned" /\ call.ret.err = Nil

\* the list parseG?PointsNoSubgroupCheck returned
Returned(ph) ==
    IF ph = "g2" THEN call.ret.g2Points
    ELSE IF pc = "returned" THEN call.ret.lagrange
    ELSE locals.setupLagrangeG1Points

\* C9: under every interleaving of the goroutines, parseG1Points- and
\* parseG2PointsNoSubgroupCheck return only after every goroutine they
\* spawned has finished, and the list returned has the length of the input
\* with the decode of hexStrings[i] in slot i (so it is the same list in
\* every run on the same input).
C9_IndexedJoin ==
    \A ph \in Phases :
        HasReturned(ph) =>
            /\ DOMAIN units[ph] = DOMAIN hexStrings(ph)
            /\ \A i \in DOMAIN units[ph] : units[ph][i] = "done"
            /\ DOMAIN Returned(ph) = DOMAIN hexStrings(ph)
            /\ \A i \in DOMAIN hexStrings(ph) :
                  /\ IsCurvePointHex(hexStrings(ph)[i], PointSize(ph))
                  /\ Returned(ph)[i] = CurvePointOf(hexStrings(ph)[i], PointSize(ph))

\* C9 witness: parseTrustedSetup has returned lists of different points,
\* one of them outside the subgroup
C9_Witness ==
    /\ pc = "returned"
    /\ call.ret.err = Nil
    /\ call.ret.lagrange[0] # call.ret.lagrange[1]
    /\ \E i \in DOMAIN call.ret.lagrange : call.ret.lagrange[i] >= Modulus
    /\ len(call.ret.g2Points) = MaxG2

\* the goroutines finish in another order than they were spawned in
C9_WitnessOutOfOrder ==
    /\ pc = "waitG1"
    /\ units["g1"][ScalarsPerBlob - 1] = "done"
    /\ units["g1"][0] = "ready"

\* SetupG1[0] decodes
GeneratorDecodes == parseG1PointNoSubgroupCheck(call.setup.SetupG1[0]).err = Nil

\* SetupG1[0] decodes and an entry of SetupG1Lagrange or SetupG2 does not
EntryFails ==
    /\ GeneratorDecodes
    /\ \E ph \in Phases : \E i \in DOMAIN hexStrings(ph) :
          parsePoint(ph, hexStrings(ph)[i]).err # Nil

\* How far the call is from its end: the position of the caller first, then
\* what its goroutines have left to do
RECURSIVE unitsLeftFrom(_, _)
unitsLeftFrom(us, i) ==
    IF i >= len(us) THEN 0
    ELSE unitsLeftFrom(us, i + 1)
         + (CASE us[i] = "unspawned" -> 3 [] us[i] = "ready" -> 2
              [] us[i] = "stored" -> 1 [] OTHER -> 0)

Rank ==
    (CASE pc = "start" -> 5 [] pc = "spawnG1" -> 4 [] pc = "waitG1" -> 3
       [] pc = "spawnG2" -> 2 [] pc = "waitG2" -> 1 [] OTHER -> 0) * 4 * (MaxUnits + 1)
    + unitsLeftFrom(units["g1"], 0) + unitsLeftFrom(units["g2"], 0)
    + (IF pc \in {"spawnG1", "spawnG2"} THEN 1 ELSE 0)

\* C10: when an entry of SetupG1Lagrange or SetupG2 fails to decode in its
\* goroutine, parseTrustedSetup never returns, neither a setup nor an error,
\* and under every interleaving the call ends in the abort of the process:
\* until then a step is always possible, and every step brings the end
\* nearer.  The only error that is returned is that of decoding SetupG1[0],
\* with no point list.
C10_AbortNotError ==
    /\ [](EntryFails => pc # "returned")
    /\ [](EntryFails /\ pc # "aborted" => ENABLED NextParse)
    /\ [][Rank' < Rank]_vars
    /\ [](pc = "aborted" => EntryFails)
    /\ [](pc = "returned" /\ call.ret.err # Nil =>
             ~GeneratorDecodes /\ call.ret.lagrange = EmptyList
                               /\ call.ret.g2Points = EmptyList)

\* C10 witness: the process aborted in a goroutine of SetupG2, after the
\* points of SetupG1Lagrange were all decoded
C10_Witness ==
    /\ pc = "aborted"
    /\ \A i \in DOMAIN units["g1"] : units["g1"][i] = "done"
    /\ \E i \in DOMAIN units["g2"] : units["g2"][i] = "stored"

C10_WitnessG1 ==
    /\ pc = "aborted"
    /\ \E i \in DOMAIN units["g1"] : units["g1"][i] = "done"
    /\ units["g2"] = EmptyList

C10_WitnessGenerator ==
    /\ pc = "returned"
    /\ call.ret.err = ErrHexInvalidByte

============================================================================
